---- MODULE Spec2Model ----
(***************************************************************************)
(* Model of the flamaster account API (src/account/api.py) and of the      *)
(* multilingual field overlay (src/core/decorators.py).                    *)
(*                                                                         *)
(* The module holds several specifications over one set of variables:      *)
(*   Spec          - the session and customer resources of one browser     *)
(*                   session                                               *)
(*   SpecAuth      - PUT sessions: log in, change and reset the password   *)
(*   SpecProfile   - PUT profiles: role changes by every kind of caller    *)
(*   SpecWrite     - the seven write handlers and their validation         *)
(*   SpecSerialize - ProfileResource.serialize for every caller            *)
(*   SpecBank      - GET bank_accounts: every caller against every account *)
(*   SpecI18n      - the multilingual getter/setter, one call at a time    *)
(*   SpecRace      - two requests running the setter step by step          *)
(* Each specification leaves the variables of the others untouched.        *)
(***************************************************************************)
EXTENDS Integers, Sequences, FiniteSets, TLC

VARIABLES
    rows,       \* the shadow table <Model>Localized: a sequence of rows, the index is the primary key
    written,    \* history: the value last written through the virtual attribute, per (parent, field, locale)
    lastRead,   \* the last getter call: its parent, field, resolved locale and returned value
    proc,       \* the setter calls in flight in SpecRace: position and locals of each request
    users,      \* table User: a sequence of rows, the index is the id
    customers,  \* table Customer: a sequence of rows, the index is the id; a deleted row keeps its id
    carts,      \* table Cart: cart k belongs to customer carts[k]
    session,    \* the browser session: the logged-in user's id and session['customer_id'] (0 for none)
    addresses,  \* table Address: a sequence of rows, each with the customer it was given to (0 for none)
    bankAccounts, \* table BankAccount: a sequence of rows, each with its owner's user id
    serialized, \* the last ProfileResource.serialize call: caller, instance and the keys of the output
    fetched,    \* the last read of bank accounts: the call, its caller and arguments, the rows it gave
    resp        \* the response to the last request: status, kind of body, keys of the error mapping

i18nVars == <<rows, written, lastRead, proc>>

accountVars == <<users, customers, carts, session, addresses, bankAccounts, serialized, fetched, resp>>

vars == <<rows, written, lastRead, proc, users, customers, carts, session,
          addresses, bankAccounts, serialized, fetched, resp>>

(***************************************************************************)
(* Values.  None is Python's None (and SQL NULL); Absent is a key that a   *)
(* request does not carry.                                                 *)
(***************************************************************************)
None == "<None>"
Absent == "<absent>"

\* ------------------------------------------------------------------------
\* Multilingual field overlay (src/core/decorators.py)
\* ------------------------------------------------------------------------

\* The persisted parent entities (their ids) and their localized text columns.
Parents == {1, 2}
Fields == {"name", "description"}

\* What a caller assigns to a virtual attribute: unicode text, the empty
\* string included.
Values == {"", "a"}

\* What babel's get_locale() resolves to, and what a request may carry as _lang
\* in its query string or its JSON body.
BabelLocales == {"en"}
LangArgs == {Absent, "de"}

\* The number of rows the runs below let the table grow to: a setter that
\* would insert into a full table is not run.
MaxRows == 2

\* unicode(x): text is kept, None becomes the text u'None'.
Unicode(x) == IF x = None THEN "None" ELSE x

\* A request as _get_locale sees it.
Requests == [babel : BabelLocales, args_lang : LangArgs, json_lang : LangArgs]

\* multilingual._get_locale: the query argument _lang wins over the JSON
\* body's _lang, which wins over babel's locale.  unicode() never yields
\* None, so the BABEL_DEFAULT_LOCALE fallback is not taken.
GetLocale(request) ==
    IF request.args_lang # Absent THEN Unicode(request.args_lang)
    ELSE IF request.json_lang # Absent THEN Unicode(request.json_lang)
    ELSE Unicode(request.babel)

Locales == {GetLocale(r) : r \in Requests}

\* A fresh localized(parent=self, locale=lang): every text column is NULL.
NewRow(parent, lang) ==
    [parent_id |-> parent, locale |-> lang, fields |-> [f \in Fields |-> None]]

\* localized.query.filter_by(parent_id=..., locale=...): the matching primary keys.
FilterBy(table, parent, lang) ==
    {i \in DOMAIN table : table[i].parent_id = parent /\ table[i].locale = lang}

\* .first(): the row with the lowest primary key; NoKey stands for None
\* (primary keys start at 1).
NoKey == 0

First(keys) ==
    IF keys = {} THEN NoKey ELSE CHOOSE i \in keys : \A j \in keys : i <= j

\* Python truthiness of a text value: None and the empty string are false.
Truthy(v) == v # None /\ v # ""

\* getter: `instance and getattr(instance, field) or None`.
Getter(table, parent, field, lang) ==
    LET instance == First(FilterBy(table, parent, lang)) IN
    IF instance = NoKey THEN None
    ELSE IF Truthy(table[instance].fields[field]) THEN table[instance].fields[field]
    ELSE None

\* instance.save() of a row that was loaded from the table: the changed column is updated.
SaveExisting(table, key, field, value) ==
    [table EXCEPT ![key].fields[field] = value]

\* instance.save() of a row that was built in memory: it is inserted under a new key.
SaveNew(table, parent, lang, field, value) ==
    Append(table, [NewRow(parent, lang) EXCEPT !.fields[field] = value])

\* A setter that takes no notice of the row it looked up.
SetterAlwaysInserts(table, parent, field, value, lang) ==
    SaveNew(table, parent, lang, field, value)

\* setter, as one call: look the row up, build one if there is none, set, save.
Setter(table, parent, field, value, lang) ==
    LET from_db == First(FilterBy(table, parent, lang)) IN
    IF from_db # NoKey THEN SaveExisting(table, from_db, field, value)
    ELSE SaveNew(table, parent, lang, field, value)

\* Whether setter would insert a row.
Inserts(table, parent, lang) == FilterBy(table, parent, lang) = {}

\* No getter call yet.  `value` is what the getter returned, `last_written`
\* what had last been assigned to that attribute under that locale.
NoRead == [called |-> FALSE, value |-> None, last_written |-> None]

Idle == [pc |-> "idle", parent |-> 0, field |-> None, value |-> None,
         lang |-> None, from_db |-> NoKey]

Procs == {1, 2}

\* Before the first serialize call.
NoOutput == [caller |-> 0, instance |-> 0, keys |-> {}]

\* Before the first read of bank accounts.
NoFetch == [op |-> "none", caller |-> 0, id |-> 0, arg |-> Absent, rows |-> {}]

\* Before the first request.
NoResponse == [status |-> 0, body |-> "none", errors |-> {}]

\* An empty database and an anonymous session without a customer.
AccountIdle ==
    /\ users = <<>>
    /\ customers = <<>>
    /\ carts = <<>>
    /\ session = [user_id |-> 0, customer_id |-> 0]
    /\ addresses = <<>>
    /\ bankAccounts = <<>>
    /\ serialized = NoOutput
    /\ fetched = NoFetch
    /\ resp = NoResponse

OverlayIdle ==
    /\ rows = <<>>
    /\ written = [p \in Parents |-> [f \in Fields |-> [l \in Locales |-> None]]]
    /\ lastRead = NoRead
    /\ proc = [r \in Procs |-> Idle]

InitI18n == AccountIdle /\ OverlayIdle

\* entity.<field> = value, within one request.
SetAttr(parent, field, value, request) ==
    LET lang == GetLocale(request) IN
    /\ Inserts(rows, parent, lang) => Len(rows) < MaxRows
    /\ rows' = Setter(rows, parent, field, value, lang)
    /\ written' = [written EXCEPT ![parent][field][lang] = value]
    /\ UNCHANGED <<lastRead, proc>>
    /\ UNCHANGED accountVars

\* entity.<field>, within one request.
GetAttr(parent, field, request) ==
    LET lang == GetLocale(request) IN
    /\ lastRead' = [called |-> TRUE,
                    value |-> Getter(rows, parent, field, lang),
                    last_written |-> written[parent][field][lang]]
    /\ UNCHANGED <<rows, written, proc>>
    /\ UNCHANGED accountVars

NextI18n ==
    \/ \E p \in Parents, f \in Fields, v \in Values, r \in Requests : SetAttr(p, f, v, r)
    \/ \E p \in Parents, f \in Fields, r \in Requests : GetAttr(p, f, r)

SpecI18n == InitI18n /\ [][NextI18n]_vars

\* ------------------------------------------------------------------------
\* The setter run by two requests at once, statement by statement
\* ------------------------------------------------------------------------

\* Lines 73-75: resolve the locale and query the shadow table.
Lookup(r, parent, field, value, request) ==
    LET lang == GetLocale(request) IN
    /\ proc[r].pc = "idle"
    /\ proc' = [proc EXCEPT ![r] = [pc |-> "looked", parent |-> parent, field |-> field,
                                    value |-> value, lang |-> lang,
                                    from_db |-> First(FilterBy(rows, parent, lang))]]
    /\ UNCHANGED <<rows, written, lastRead>>
    /\ UNCHANGED accountVars

\* Lines 77-78: `from_db or localized(parent=self, locale=lang)`, then setattr.
\* The new row lives in the request's memory only.
Build(r) ==
    /\ proc[r].pc = "looked"
    /\ proc' = [proc EXCEPT ![r].pc = "built"]
    /\ UNCHANGED <<rows, written, lastRead>>
    /\ UNCHANGED accountVars

\* Line 79: instance.save() commits an UPDATE of the loaded row or an INSERT of
\* the new one.  The table has no unique constraint on (parent_id, locale)
\* (lines 101-109), so the INSERT always goes through.
Save(r) ==
    LET p == proc[r] IN
    /\ p.pc = "built"
    /\ rows' = IF p.from_db # NoKey
               THEN SaveExisting(rows, p.from_db, p.field, p.value)
               ELSE SaveNew(rows, p.parent, p.lang, p.field, p.value)
    /\ written' = [written EXCEPT ![p.parent][p.field][p.lang] = p.value]
    /\ proc' = [proc EXCEPT ![r].pc = "done"]
    /\ UNCHANGED lastRead
    /\ UNCHANGED accountVars

NextRace ==
    \/ \E r \in Procs, p \in Parents, f \in Fields, v \in Values, q \in Requests :
          Lookup(r, p, f, v, q)
    \/ \E r \in Procs : Build(r)
    \/ \E r \in Procs : Save(r)

SpecRace == InitI18n /\ [][NextRace]_vars

\* ------------------------------------------------------------------------
\* Account data (src/account/api.py and the models it uses)
\* ------------------------------------------------------------------------

\* A JSON value of the wrong type for its field (a number where text is due).
BadType == "<bad type>"

\* Text that t.Email accepts, and text that it refuses.
EmailShaped == {"a@x", "b@x"}
Malformed == "nobody"

Passwords == {"p", "q"}

\* The default password of line 56.
DefaultPassword == "*"

Names == {"Ann"}

\* Rows the runs below let the Customer and Cart tables grow to.
MaxCustomers == 3
MaxCarts == 2

UserIds == DOMAIN users
CustomerIds == {c \in DOMAIN customers : customers[c].alive}

\* encrypt_password / verify_password of flask-security: the stored form of a
\* password differs from the password, and a password verifies against its
\* own stored form only.
EncryptPassword(password) == "$" \o password

VerifyPassword(password, stored) ==
    password # None /\ stored = EncryptPassword(password)

\* _security.datastore.find_user(email=...) / User.query.filter_by(email=...):
\* the id of the user with that email, 0 for None.
FindUser(email) ==
    IF \E u \in UserIds : users[u].email = email
    THEN CHOOSE u \in UserIds : users[u].email = email
    ELSE 0

\* User.is_unique(email).
IsUnique(email) == FindUser(email) = 0

\* requires_confirmation(user): the account's email was never confirmed.
RequiresConfirmation(u) == ~users[u].confirmed

\* user.customer: the id of the customer linked to the user, 0 for None.
UserCustomer(table, u) ==
    IF \E c \in DOMAIN table : table[c].alive /\ table[c].user_id = u
    THEN CHOOSE c \in DOMAIN table : table[c].alive /\ table[c].user_id = u
    ELSE 0

\* Customer.query.get(id): the id when the row exists, 0 for None.
CustomerGet(id) == IF id \in CustomerIds THEN id ELSE 0

\* Cart.for_customer(customer): the carts of that customer.
CartsForCustomer(c) == {k \in DOMAIN carts : carts[k] = c}

\* An update that reaches no cart.
CartsUntouched(keys, target) == carts

\* Query.update({'customer_id': target}) on those carts.
CartsUpdate(keys, target) ==
    [k \in DOMAIN carts |-> IF k \in keys THEN target ELSE carts[k]]

\* customer.delete(): the row is gone, its id is not used again.
Deleted == [alive |-> FALSE, user_id |-> 0, first_name |-> None]

CustomerDelete(table, c) == [table EXCEPT ![c] = Deleted]

\* login_user(user): flask-login refuses a user that is not active.
LoginUser(sess, u) ==
    IF users[u].active THEN [sess EXCEPT !.user_id = u] ELSE sess

\* The rows register_user and the customer signal create for a new account.
NewUser(email, password) ==
    [email |-> email, password |-> EncryptPassword(password), active |-> TRUE,
     confirmed |-> FALSE, roles |-> {}, first_name |-> None]

NewCustomer(u) == [alive |-> TRUE, user_id |-> u, first_name |-> None]

\* jsonify_status_code(response, status) and the two ways a request ends
\* without it: abort(status) and an exception nothing catches.
Json(status) == [status |-> status, body |-> "json", errors |-> {}]
Errors(status, keys) == [status |-> status, body |-> "errors", errors |-> keys]
Abort(status) == [status |-> status, body |-> "abort", errors |-> {}]
Crash == [status |-> 500, body |-> "crash", errors |-> {}]

\* ------------------------------------------------------------------------
\* SessionResource
\* ------------------------------------------------------------------------

\* Reset-password tokens a client may hold, and what
\* reset_password_token_status(token) makes of each: (expired, invalid, user).
ResetTokens == {"reset-1", "reset-2", "stale-1", "forged"}

ResetPasswordTokenStatus(token) ==
    CASE token = "reset-1" -> [expired |-> FALSE, invalid |-> FALSE, user |-> 1]
      [] token = "reset-2" -> [expired |-> FALSE, invalid |-> FALSE, user |-> 2]
      [] token = "stale-1" -> [expired |-> TRUE, invalid |-> FALSE, user |-> 1]
      [] OTHER -> [expired |-> FALSE, invalid |-> TRUE, user |-> 0]

\* A token is in circulation only for an account that exists.
TokenIssued(token) ==
    token \in ResetTokens => ResetPasswordTokenStatus(token).user \in UserIds \cup {0}

\* SessionResource.validation: the keys whose value the schema refuses.  Every
\* key is optional; email must be email-shaped, the three texts may be null
\* or any string, reset a boolean.
SessionErrors(d) ==
    {k \in {"email"} : d.email # Absent /\ d.email \notin EmailShaped}
    \cup {k \in {"password", "confirm_password", "token"} : d[k] = BadType}
    \cup {k \in {"reset"} : d.reset \notin {Absent, "true", "false"}}

\* cleaned_data.get(key): None for a missing key.
DictGet(d, k) == IF d[k] = Absent THEN None ELSE d[k]

\* The payloads of POST and PUT sessions: those that ask for a log-in or a
\* registration, for a new password under a reset token, and for a reset link.
AuthPayloads ==
    [email : {Absent, Malformed} \cup EmailShaped,
     password : {Absent, BadType} \cup Passwords,
     confirm_password : {Absent}, token : {Absent}, reset : {Absent}]

\* Registrations leave the password out or give one.
RegisterPayloads ==
    [email : {Absent, Malformed} \cup EmailShaped,
     password : {Absent, "p"},
     confirm_password : {Absent}, token : {Absent}, reset : {Absent}]

ChangePayloads ==
    [email : {Absent},
     password : {Absent} \cup Passwords,
     confirm_password : {"p", BadType},
     token : ResetTokens, reset : {Absent}]

ResetPayloads ==
    [email : {Absent} \cup EmailShaped,
     password : {Absent}, confirm_password : {Absent}, token : {Absent},
     reset : {"true", BadType}]

SessionPayloads == AuthPayloads \cup ChangePayloads \cup ResetPayloads

\* SessionResource.post: register an account.
SessionPost(d) ==
    /\ IF SessionErrors(d) # {}
       THEN /\ resp' = Errors(400, SessionErrors(d))
            /\ UNCHANGED <<users, customers>>
       ELSE IF d.email = Absent
       THEN /\ resp' = Crash
            /\ UNCHANGED <<users, customers>>
       ELSE IF ~IsUnique(d.email)
       THEN /\ resp' = Errors(400, {"email"})
            /\ UNCHANGED <<users, customers>>
       ELSE /\ Len(customers) < MaxCustomers
            /\ users' = Append(users, NewUser(d.email,
                            IF d.password = Absent THEN DefaultPassword ELSE d.password))
            /\ customers' = Append(customers, NewCustomer(Len(users) + 1))
            /\ resp' = Json(201)
    /\ UNCHANGED <<carts, session, addresses, bankAccounts, serialized, fetched, i18nVars>>

\* A change of password that takes an expired token.
ChangePasswordTakesExpired(password, confirm_password, token) ==
    LET status == ResetPasswordTokenStatus(token) IN
    IF status.invalid
    THEN /\ resp' = Errors(400, {"token"})
         /\ UNCHANGED <<users, session>>
    ELSE IF password # confirm_password
    THEN /\ resp' = Errors(400, {"confirm_password"})
         /\ UNCHANGED <<users, session>>
    ELSE /\ users' = [users EXCEPT ![status.user].password = password]
         /\ session' = LoginUser(session, status.user)
         /\ resp' = Json(202)

\* SessionResource.__change_password.
ChangePassword(password, confirm_password, token) ==
    LET status == ResetPasswordTokenStatus(token) IN
    IF status.invalid \/ status.expired
    THEN /\ resp' = Errors(400, {"token"})
         /\ UNCHANGED <<users, session>>
    ELSE IF password # confirm_password
    THEN /\ resp' = Errors(400, {"confirm_password"})
         /\ UNCHANGED <<users, session>>
    ELSE /\ users' = [users EXCEPT ![status.user].password = password]
         /\ session' = LoginUser(session, status.user)
         /\ resp' = Json(202)

\* SessionResource.__reset_password: mails a reset link to a known address.
ResetPassword(d) ==
    /\ resp' = IF d.email = Absent THEN Crash
               ELSE IF FindUser(d.email) # 0 THEN Json(202)
               ELSE Errors(404, {"email"})
    /\ UNCHANGED <<users, session>>

\* SessionResource._authenticate, with the wrapping of put (lines 123-130).
Authenticate(d) ==
    LET user == FindUser(d.email)
        refused(key) == /\ resp' = Errors(400, {key})
                        /\ UNCHANGED <<customers, carts, session>>
    IN
    IF d.email = Absent
    THEN /\ resp' = Crash
         /\ UNCHANGED <<customers, carts, session>>
    ELSE IF user = 0 THEN refused("email")
    ELSE IF RequiresConfirmation(user) THEN refused("email")
    ELSE IF ~users[user].active THEN refused("email")
    ELSE IF ~VerifyPassword(DictGet(d, "password"), users[user].password)
    THEN refused("password")
    ELSE LET logged == LoginUser(session, user)
             customer == IF session.customer_id # 0 THEN CustomerGet(session.customer_id) ELSE 0
             merge == customer # 0 /\ customers[customer].user_id = 0
             own == UserCustomer(customers, user)
         IN
         IF own = 0
         THEN /\ session' = logged
              /\ resp' = Crash
              /\ UNCHANGED <<customers, carts>>
         ELSE /\ carts' = IF merge THEN CartsUpdate(CartsForCustomer(customer), own) ELSE carts
              /\ customers' = IF merge THEN CustomerDelete(customers, customer) ELSE customers
              /\ session' = [logged EXCEPT !.customer_id = own]
              /\ resp' = Json(202)

\* SessionResource.put.
SessionPut(d) ==
    /\ TokenIssued(d.token)
    /\ IF SessionErrors(d) # {}
       THEN /\ resp' = Errors(400, SessionErrors(d))
            /\ UNCHANGED <<users, customers, carts, session>>
       ELSE IF DictGet(d, "confirm_password") # None /\ DictGet(d, "token") # None
       THEN /\ ChangePassword(DictGet(d, "password"), d.confirm_password, d.token)
            /\ UNCHANGED <<customers, carts>>
       ELSE IF d.reset = "true"
       THEN /\ ResetPassword(d)
            /\ UNCHANGED <<customers, carts>>
       ELSE /\ Authenticate(d)
            /\ UNCHANGED users
    /\ UNCHANGED <<addresses, bankAccounts, serialized, fetched, i18nVars>>

\* SessionResource.delete: log out.
SessionDelete ==
    /\ session' = [user_id |-> 0, customer_id |-> 0]
    /\ resp' = Json(204)
    /\ UNCHANGED <<users, customers, carts, addresses, bankAccounts, serialized, fetched, i18nVars>>

\* ------------------------------------------------------------------------
\* CustomerResource
\* ------------------------------------------------------------------------

\* A JSON object's keys the schema does not name, here as a dict.
EmptyDict == [k \in {} |-> None]
CustomerExtras == {EmptyDict, [user_id |-> 1]}

\* The payloads of POST and PUT customers.  Of the required keys first_name
\* stands for all (last_name, email and gender are taken as given and valid).
CustomerPayloads == [first_name : {Absent} \cup Names, extra : CustomerExtras]

\* CustomerResource.validation: the keys whose value the schema refuses.
CustomerErrors(d) == {k \in {"first_name"} : d.first_name \notin Names}

\* A check that lets the extra keys through (allow_extra).
CustomerCleanKeepsExtra(d) == [first_name |-> d.first_name] @@ d.extra

\* What validation.check returns: the checked keys; ignore_extra('*') drops the rest.
CustomerClean(d) == [first_name |-> d.first_name]

\* CRUDMixin.update(**data): every key of data is set on the row.
Update(row, data) ==
    [k \in DOMAIN row |-> IF k \in DOMAIN data THEN data[k] ELSE row[k]]

\* CustomerResource._customer: 0 for None, -1 for abort(400).
SessionCustomer ==
    IF session.user_id = 0
    THEN IF session.customer_id # 0 THEN CustomerGet(session.customer_id) ELSE -1
    ELSE UserCustomer(customers, session.user_id)

\* CustomerResource.post: update the caller's own customer.
CustomerPost(d) ==
    /\ IF CustomerErrors(d) # {}
       THEN /\ resp' = Errors(400, CustomerErrors(d))
            /\ UNCHANGED customers
       ELSE IF SessionCustomer = -1
       THEN /\ resp' = Abort(400)
            /\ UNCHANGED customers
       ELSE IF SessionCustomer = 0
       THEN /\ resp' = Crash
            /\ UNCHANGED customers
       ELSE /\ customers' = [customers EXCEPT
                                ![SessionCustomer] = Update(@, CustomerClean(d))]
            /\ resp' = Json(201)
    /\ UNCHANGED <<users, carts, session, addresses, bankAccounts, serialized, fetched, i18nVars>>

\* CustomerResource.put: update the customer of that id.
CustomerPut(id, d) ==
    /\ IF CustomerErrors(d) # {}
       THEN /\ resp' = Errors(400, CustomerErrors(d))
            /\ UNCHANGED customers
       ELSE IF CustomerGet(id) = 0
       THEN /\ resp' = Abort(404)
            /\ UNCHANGED customers
       ELSE /\ customers' = [customers EXCEPT ![id] = Update(@, CustomerClean(d))]
            /\ resp' = Json(202)
    /\ UNCHANGED <<users, carts, session, addresses, bankAccounts, serialized, fetched, i18nVars>>

\* ------------------------------------------------------------------------
\* ProfileResource
\* ------------------------------------------------------------------------

\* The rows of table Role, by id; any other id is unknown.
Roles == {"admin", "staff"}
UnknownRole == "ghost"

\* User.is_superuser(): the user holds the admin role; an anonymous user (0) does not.
IsSuperuser(table, u) == u # 0 /\ "admin" \in table[u].roles

\* Email-confirmation tokens a client may hold, and the user
\* confirm_email_token_status(token) returns for each (0 for None).
ConfirmTokens == {"confirm-1", "confirm-2", "junk"}

ConfirmTokenUser(token) ==
    CASE token = "confirm-1" -> 1
      [] token = "confirm-2" -> 2
      [] OTHER -> 0

\* The payloads of PUT profiles.  Of the required texts first_name stands for
\* all (last_name, phone, fax and company are taken as given and valid).
ProfilePayloads ==
    [first_name : {Absent} \cup Names,
     password : {Absent, "pw", "secret1"},
     confirmation : {Absent, "secret1", "secret2"},
     role_id : {Absent, BadType, UnknownRole} \cup Roles,
     token : {Absent} \cup ConfirmTokens]

\* `request.json or abort(...)`: an empty JSON object is falsy.
IsEmpty(d) == \A k \in DOMAIN d : d[k] = Absent

\* ProfileResource._cmp_pwds on the keys of {password, confirmation} that the
\* payload carries: "ok", the key in error, or "crash" for the KeyError of
\* lines 263 and 266 when only one of the two keys is there.
CmpPwds(d) ==
    IF d.password = Absent /\ d.confirmation = Absent THEN "ok"
    ELSE IF d.password = Absent THEN "crash"
    ELSE IF Len(d.password) < 6 THEN "password"
    ELSE IF d.confirmation = Absent THEN "crash"
    ELSE IF d.password # d.confirmation THEN "confirmation"
    ELSE "ok"

\* The t.Dict of set_put_validation_dict: the keys in error.
ProfileErrors(d) ==
    {k \in {"first_name"} : d.first_name \notin Names}
    \cup {k \in {"role_id"} : d.role_id = BadType}
    \cup {k \in {"password", "confirmation"} : CmpPwds(d) = k}

\* What the checked data sets on the user: first_name, and the encrypted
\* password when one was given.  role_id is set as a plain attribute and the
\* token is an extra key.
ProfileClean(d) ==
    IF d.password = Absent THEN [first_name |-> d.first_name]
    ELSE [first_name |-> d.first_name, password |-> EncryptPassword(d.password)]

\* ProfileResource.get_object: the instance (0 for the anonymous g.user), and
\* the users and session it leaves behind.  With a token in the payload the
\* token's user is confirmed, saved and logged in.
GetObject(id, d) ==
    IF d.token # Absent
    THEN LET instance == ConfirmTokenUser(d.token) IN
         IF instance = 0
         THEN [outcome |-> "crash", instance |-> 0, users |-> users, session |-> session]
         ELSE [outcome |-> "ok", instance |-> instance,
               users |-> [users EXCEPT ![instance].confirmed = TRUE],
               session |-> LoginUser(session, instance)]
    ELSE IF IsSuperuser(users, session.user_id)
    THEN [outcome |-> IF id \in UserIds THEN "ok" ELSE "404", instance |-> id,
          users |-> users, session |-> session]
    ELSE [outcome |-> "ok", instance |-> session.user_id, users |-> users, session |-> session]

\* A wrapper that adds the role whoever asks.
ChangeRoleByAnyone(id, d) ==
    LET got == GetObject(id, d) IN
    IF got.outcome # "ok" \/ d.role_id = Absent THEN got
    ELSE IF d.role_id \notin Roles THEN [got EXCEPT !.outcome = "404"]
    ELSE IF got.instance = 0 THEN [got EXCEPT !.outcome = "403"]
    ELSE [got EXCEPT !.users[got.instance].roles = @ \cup {d.role_id}]

\* ProfileResource._change_role's wrapper, run on the checked data.
ChangeRole(id, d) ==
    LET got == GetObject(id, d) IN
    IF got.outcome # "ok" \/ d.role_id = Absent THEN got
    ELSE IF d.role_id \notin Roles THEN [got EXCEPT !.outcome = "404"]
    ELSE IF got.instance # 0 /\ d.role_id \in got.users[got.instance].roles THEN got
    ELSE IF IsSuperuser(got.users, got.session.user_id)
    THEN [got EXCEPT !.users[got.instance].roles = @ \cup {d.role_id}]
    ELSE [got EXCEPT !.outcome = "403"]

\* ProfileResource.put.
ProfilePut(id, d) ==
    /\ d.token # Absent => ConfirmTokenUser(d.token) \in UserIds \cup {0}
    /\ IF IsEmpty(d)
       THEN /\ resp' = Abort(400)
            /\ UNCHANGED <<users, session>>
       ELSE IF CmpPwds(d) = "crash"
       THEN /\ resp' = Crash
            /\ UNCHANGED <<users, session>>
       ELSE IF ProfileErrors(d) # {}
       THEN /\ resp' = Errors(400, ProfileErrors(d))
            /\ UNCHANGED <<users, session>>
       ELSE LET role == ChangeRole(id, d) IN
            /\ session' = role.session
            /\ IF role.outcome = "crash"
               THEN resp' = Crash /\ UNCHANGED users
               ELSE IF role.outcome = "404"
               THEN resp' = Abort(404) /\ users' = GetObject(id, d).users
               ELSE IF role.outcome = "403"
               THEN resp' = Abort(403) /\ users' = GetObject(id, d).users
               ELSE IF role.instance = 0
               THEN resp' = Crash /\ UNCHANGED users
               ELSE /\ users' = [role.users EXCEPT
                                    ![role.instance] = Update(@, ProfileClean(d))]
                    /\ resp' = Json(202)
    /\ UNCHANGED <<customers, carts, addresses, bankAccounts, serialized, fetched, i18nVars>>

\* ------------------------------------------------------------------------
\* AddressResource and BankAccountResource
\* ------------------------------------------------------------------------

\* Rows the runs below let the Address and BankAccount tables grow to.
MaxAddresses == 1
MaxBankAccounts == 1

\* The payloads of POST addresses.  Of the required keys city stands for all.
AddressPayloads ==
    [city : {Absent, "Kyiv"}, type : {Absent, "billing", "delivery", "home"}]

\* AddressResource.validation: the keys in error.
AddressErrors(d) ==
    {k \in {"city"} : d.city = Absent}
    \cup {k \in {"type"} : d.type \notin {Absent, "billing", "delivery"}}

\* AddressResource.post: the address is created, then given to the caller's customer.
AddressPost(d) ==
    /\ IF AddressErrors(d) # {}
       THEN /\ resp' = Errors(400, AddressErrors(d))
            /\ UNCHANGED addresses
       ELSE /\ Len(addresses) < MaxAddresses
            /\ addresses' = Append(addresses,
                   [customer_id |-> IF SessionCustomer > 0 THEN SessionCustomer ELSE 0,
                    type |-> DictGet(d, "type")])
            /\ resp' = IF SessionCustomer = -1 THEN Abort(400)
                       ELSE IF SessionCustomer = 0 THEN Crash
                       ELSE Json(201)
    /\ UNCHANGED <<users, customers, carts, session, bankAccounts, serialized, fetched, i18nVars>>

\* The payloads of POST bank_accounts.
BankAccountPayloads ==
    [bank_name : {Absent, "Bank"}, iban : {Absent, "DE00"}, swift : {Absent, "SWFT"}]

\* BankAccountResource.validation: the keys in error.
BankAccountErrors(d) == {k \in DOMAIN d : d[k] = Absent}

\* BankAccountResource.post, behind login_required.
BankAccountPost(d) ==
    /\ IF session.user_id = 0
       THEN /\ resp' = Abort(401)
            /\ UNCHANGED bankAccounts
       ELSE IF IsEmpty(d)
       THEN /\ resp' = Abort(400)
            /\ UNCHANGED bankAccounts
       ELSE IF BankAccountErrors(d) # {}
       THEN /\ resp' = Errors(400, BankAccountErrors(d))
            /\ UNCHANGED bankAccounts
       ELSE /\ Len(bankAccounts) < MaxBankAccounts
            /\ bankAccounts' = Append(bankAccounts, [user_id |-> session.user_id])
            /\ resp' = Json(201)
    /\ UNCHANGED <<users, customers, carts, session, addresses, serialized, fetched, i18nVars>>

\* ------------------------------------------------------------------------
\* ProfileResource.serialize
\* ------------------------------------------------------------------------

\* CRUDMixin.as_dict(include, exclude): the listed fields less the excluded ones.
AsDict(include, exclude) == include \ exclude

\* The include list serialize starts from.
ProfileInclude ==
    {"first_name", "last_name", "created_at", "phone", "current_login_at",
     "active", "billing_address", "delivery_address", "logged_at",
     "is_superuser", "birth_date", "fax", "company", "gender", "id"}

\* User.billing_address / User.delivery_address: the address of that type
\* given to the user's customer.
HasAddress(u, type) ==
    \E a \in DOMAIN addresses :
        /\ addresses[a].customer_id # 0
        /\ addresses[a].customer_id = UserCustomer(customers, u)
        /\ addresses[a].type = type

\* ProfileResource.__add_address_prefix: the address's keys, prefixed.
AddAddressPrefix(u, type) ==
    IF HasAddress(u, type) THEN {type \o "_city", type \o "_id"} ELSE {}

\* A serialize whose include list names email from the start.
SerializeKeysEmailListed(caller, instance) ==
    AsDict(ProfileInclude \cup {"email"}, {"password"})

\* ProfileResource.serialize: the keys of the mapping it returns when
\* g.user is `caller` (0 when anonymous).
SerializeKeys(caller, instance) ==
    IF caller = 0
    THEN AsDict(ProfileInclude, {"password"})
    ELSE LET hidden == caller # instance /\ ~IsSuperuser(users, caller)
             exclude == IF hidden THEN {"password", "email"} ELSE {"password"}
             include == IF hidden THEN ProfileInclude ELSE ProfileInclude \cup {"email"}
         IN AsDict(include, exclude)
            \cup (IF UserCustomer(customers, instance) # 0 THEN {"shop_id"} ELSE {})
            \cup AddAddressPrefix(instance, "billing")
            \cup AddAddressPrefix(instance, "delivery")

\* A profile is serialized for the caller of the request.
Serialize(instance) ==
    /\ instance \in UserIds
    /\ serialized' = [caller |-> session.user_id, instance |-> instance,
                      keys |-> SerializeKeys(session.user_id, instance)]
    /\ UNCHANGED <<users, customers, carts, session, addresses, bankAccounts, fetched, resp, i18nVars>>

\* ------------------------------------------------------------------------
\* BankAccountResource: reading
\* ------------------------------------------------------------------------

\* BankAccount.check_owner(user): the account's user_id is the user's id.
CheckOwner(b, u) == u # 0 /\ bankAccounts[b].user_id = u

\* The values of the user_id query argument, and the id each one names
\* (0 for none: no user has that id).
UserIdArgs == {Absent, "1", "2", "9"}

ArgUserId(arg) ==
    CASE arg = "1" -> 1
      [] arg = "2" -> 2
      [] arg = "3" -> 3
      [] OTHER -> 0

\* No filter on user_id.
AnyUser == -1

\* A get_objects in which the query argument is applied after the caller's id.
UserIdFilterArgLast(caller, arg) ==
    IF arg # Absent THEN ArgUserId(arg)
    ELSE IF ~IsSuperuser(users, caller) THEN caller
    ELSE AnyUser

\* BankAccountResource.get_objects: the user_id the query is filtered by.
UserIdFilter(caller, arg) ==
    IF ~IsSuperuser(users, caller) THEN caller
    ELSE IF arg # Absent THEN ArgUserId(arg)
    ELSE AnyUser

\* model.query.filter_by(user_id=...): the rows of the table that match.
FilterByUser(filter) ==
    {b \in DOMAIN bankAccounts : filter = AnyUser \/ bankAccounts[b].user_id = filter}

\* GET bank_accounts/<id>, behind login_required: get_object and the answer.
\* An id without a row ends the request in the base class, with a 404 or
\* with an error.
BankAccountGet(id) ==
    /\ IF session.user_id = 0
       THEN /\ resp' = Abort(401)
            /\ fetched' = [op |-> "get_object", caller |-> 0, id |-> id,
                           arg |-> Absent, rows |-> {}]
       ELSE IF id \notin DOMAIN bankAccounts
       THEN /\ resp' \in {Abort(404), Crash}
            /\ fetched' = [op |-> "get_object", caller |-> session.user_id, id |-> id,
                           arg |-> Absent, rows |-> {}]
       ELSE IF CheckOwner(id, session.user_id) \/ IsSuperuser(users, session.user_id)
       THEN /\ resp' = Json(200)
            /\ fetched' = [op |-> "get_object", caller |-> session.user_id, id |-> id,
                           arg |-> Absent, rows |-> {id}]
       ELSE /\ resp' = Abort(401)
            /\ fetched' = [op |-> "get_object", caller |-> session.user_id, id |-> id,
                           arg |-> Absent, rows |-> {}]
    /\ UNCHANGED <<users, customers, carts, session, addresses, bankAccounts,
                   serialized, i18nVars>>

\* GET bank_accounts, behind login_required: get_objects and the answer.
BankAccountList(arg) ==
    /\ IF session.user_id = 0
       THEN /\ resp' = Abort(401)
            /\ fetched' = [op |-> "get_objects", caller |-> 0, id |-> 0,
                           arg |-> arg, rows |-> {}]
       ELSE /\ resp' = Json(200)
            /\ fetched' = [op |-> "get_objects", caller |-> session.user_id, id |-> 0,
                           arg |-> arg,
                           rows |-> FilterByUser(UserIdFilter(session.user_id, arg))]
    /\ UNCHANGED <<users, customers, carts, session, addresses, bankAccounts,
                   serialized, i18nVars>>

\* ------------------------------------------------------------------------
\* What the rest of the application does to these tables
\* ------------------------------------------------------------------------

\* A visitor without a session customer gets an anonymous one.
AnonymousVisit ==
    /\ session.user_id = 0
    /\ session.customer_id = 0
    /\ Len(customers) < MaxCustomers
    /\ customers' = Append(customers, NewCustomer(0))
    /\ session' = [session EXCEPT !.customer_id = Len(customers) + 1]
    /\ resp' = Json(200)
    /\ UNCHANGED <<users, carts, addresses, bankAccounts, serialized, fetched, i18nVars>>

\* The session's customer puts something into a new cart.
AddCart ==
    /\ session.customer_id \in CustomerIds
    /\ Len(carts) < MaxCarts
    /\ carts' = Append(carts, session.customer_id)
    /\ resp' = Json(201)
    /\ UNCHANGED <<users, customers, session, addresses, bankAccounts, serialized, fetched, i18nVars>>

\* ------------------------------------------------------------------------
\* The account specification
\* ------------------------------------------------------------------------

\* The database holds one account, confirmed and active, with its customer;
\* the browser session is anonymous.
Init ==
    /\ OverlayIdle
    /\ users = <<[NewUser("a@x", "p") EXCEPT !.confirmed = TRUE]>>
    /\ customers = <<NewCustomer(1)>>
    /\ carts = <<>>
    /\ session = [user_id |-> 0, customer_id |-> 0]
    /\ addresses = <<>>
    /\ bankAccounts = <<>>
    /\ serialized = NoOutput
    /\ fetched = NoFetch
    /\ resp = NoResponse

\* Registration, log-in, log-out, customer updates, anonymous visits and carts.
Next ==
    \/ \E d \in RegisterPayloads : SessionPost(d)
    \/ \E d \in AuthPayloads : SessionPut(d)
    \/ SessionDelete
    \/ \E d \in CustomerPayloads : CustomerPost(d)
    \/ \E id \in 1..MaxCustomers, d \in CustomerPayloads : CustomerPut(id, d)
    \/ AnonymousVisit
    \/ AddCart

Spec == Init /\ [][Next]_vars

\* ------------------------------------------------------------------------
\* The log-in specification: every kind of PUT sessions, against two accounts
\* ------------------------------------------------------------------------

Standings == [active : BOOLEAN, confirmed : BOOLEAN]

\* Two accounts, each with its customer: the first in any standing, the
\* second confirmed and active.  The browser session is anonymous and may
\* hold an anonymous customer.
InitAuth ==
    /\ OverlayIdle
    /\ \E s1 \in Standings :
          users = <<[NewUser("a@x", "p") EXCEPT !.active = s1.active, !.confirmed = s1.confirmed],
                    [NewUser("b@x", "q") EXCEPT !.confirmed = TRUE]>>
    /\ customers = <<NewCustomer(1), NewCustomer(2), NewCustomer(0)>>
    /\ carts = <<>>
    /\ \E c \in {0, 3} : session = [user_id |-> 0, customer_id |-> c]
    /\ addresses = <<>>
    /\ bankAccounts = <<>>
    /\ serialized = NoOutput
    /\ fetched = NoFetch
    /\ resp = NoResponse

NextAuth ==
    \/ \E d \in SessionPayloads : SessionPut(d)
    \/ SessionDelete

SpecAuth == InitAuth /\ [][NextAuth]_vars

\* ------------------------------------------------------------------------
\* Serialization on its own: every caller against every profile
\* ------------------------------------------------------------------------

\* Three accounts, each with or without the admin role, each with its
\* customer; the first may have a billing address.  The caller is anonymous
\* or any of the three.
InitSerialize ==
    /\ OverlayIdle
    /\ \E admins \in SUBSET {1, 2, 3} :
          users = [u \in {1, 2, 3} |->
                      [NewUser(<<"a@x", "b@x", "c@x">>[u], "p") EXCEPT
                          !.confirmed = TRUE,
                          !.roles = IF u \in admins THEN {"admin"} ELSE {}]]
    /\ customers = <<NewCustomer(1), NewCustomer(2), NewCustomer(3)>>
    /\ carts = <<>>
    /\ \E u \in {0, 1, 2, 3} : session = [user_id |-> u, customer_id |-> u]
    /\ addresses \in {<<>>, <<[customer_id |-> 1, type |-> "billing"]>>}
    /\ bankAccounts = <<>>
    /\ serialized = NoOutput
    /\ fetched = NoFetch
    /\ resp = NoResponse

NextSerialize == \E instance \in {1, 2, 3} : Serialize(instance)

SpecSerialize == InitSerialize /\ [][NextSerialize]_vars

\* ------------------------------------------------------------------------
\* Profile updates on their own: role changes by every kind of caller
\* ------------------------------------------------------------------------

\* The profile updates of these runs: with and without a role_id, with and
\* without a confirmation token, the required texts present or missing.
RolePayloads ==
    {d \in ProfilePayloads :
        /\ d.password = Absent
        /\ d.confirmation = Absent
        /\ d.token \in {Absent, "confirm-2", "junk"}}

\* An administrator and a second account that is confirmed or not and holds
\* the staff role or not; the caller is anonymous or either of them.
InitProfile ==
    /\ OverlayIdle
    /\ \E held \in SUBSET {"staff"}, confirmed \in BOOLEAN :
          users = <<[NewUser("a@x", "p") EXCEPT !.confirmed = TRUE, !.roles = {"admin"}],
                    [NewUser("b@x", "q") EXCEPT !.confirmed = confirmed, !.roles = held]>>
    /\ customers = <<NewCustomer(1), NewCustomer(2)>>
    /\ carts = <<>>
    /\ \E u \in {0, 1, 2} : session = [user_id |-> u, customer_id |-> u]
    /\ addresses = <<>>
    /\ bankAccounts = <<>>
    /\ serialized = NoOutput
    /\ fetched = NoFetch
    /\ resp = NoResponse

NextProfile ==
    \/ \E id \in {1, 2, 3}, d \in RolePayloads : ProfilePut(id, d)
    \/ SessionDelete

SpecProfile == InitProfile /\ [][NextProfile]_vars

\* ------------------------------------------------------------------------
\* The seven write handlers together
\* ------------------------------------------------------------------------

\* Profile updates that leave role and token alone or give a role_id of the wrong type.
WriteProfilePayloads ==
    {d \in ProfilePayloads : d.role_id \in {Absent, BadType} /\ d.token = Absent}

\* One confirmed account with its customer, and an anonymous customer.  The
\* caller is the account's user, or anonymous with or without that customer.
InitWrite ==
    /\ OverlayIdle
    /\ users = <<[NewUser("a@x", "p") EXCEPT !.confirmed = TRUE]>>
    /\ customers = <<NewCustomer(1), NewCustomer(0)>>
    /\ carts = <<>>
    /\ session \in {[user_id |-> 1, customer_id |-> 1],
                    [user_id |-> 0, customer_id |-> 2],
                    [user_id |-> 0, customer_id |-> 0]}
    /\ addresses = <<>>
    /\ bankAccounts = <<>>
    /\ serialized = NoOutput
    /\ fetched = NoFetch
    /\ resp = NoResponse

NextWrite ==
    \/ \E d \in WriteProfilePayloads : ProfilePut(1, d)
    \/ \E d \in RegisterPayloads : SessionPost(d)
    \/ \E d \in AuthPayloads : SessionPut(d)
    \/ \E d \in AddressPayloads : AddressPost(d)
    \/ \E d \in BankAccountPayloads : BankAccountPost(d)
    \/ \E d \in CustomerPayloads : CustomerPost(d)
    \/ \E id \in 1..MaxCustomers, d \in CustomerPayloads : CustomerPut(id, d)

SpecWrite == InitWrite /\ [][NextWrite]_vars

\* ------------------------------------------------------------------------
\* Reading bank accounts: every caller against every account
\* ------------------------------------------------------------------------

\* The BankAccount tables of these runs, by the owners of their rows.
BankTables == {<<1, 2>>, <<2, 2>>, <<2, 3, 1>>, <<3>>}

\* Three accounts, the first an administrator or not, and a table of bank
\* accounts they posted; the caller is anonymous or any of the three.
InitBank ==
    /\ OverlayIdle
    /\ \E held \in SUBSET {"admin"} :
          users = [u \in {1, 2, 3} |->
                      [NewUser(<<"a@x", "b@x", "c@x">>[u], "p") EXCEPT
                          !.confirmed = TRUE,
                          !.roles = IF u = 1 THEN held ELSE {}]]
    /\ customers = <<NewCustomer(1), NewCustomer(2), NewCustomer(3)>>
    /\ carts = <<>>
    /\ \E u \in {0, 1, 2, 3} : session = [user_id |-> u, customer_id |-> u]
    /\ addresses = <<>>
    /\ \E owners \in BankTables :
          bankAccounts = [b \in DOMAIN owners |-> [user_id |-> owners[b]]]
    /\ serialized = NoOutput
    /\ fetched = NoFetch
    /\ resp = NoResponse

NextBank ==
    \/ \E id \in {1, 2, 3, 4} : BankAccountGet(id)
    \/ \E arg \in UserIdArgs : BankAccountList(arg)

SpecBank == InitBank /\ [][NextBank]_vars


\* ------------------------------------------------------------------------
\* Properties of the multilingual overlay
\* ------------------------------------------------------------------------

\* C3: after any sequence of setter calls the shadow table holds at most one
\* row for each (parent, locale) pair: a write under a locale that already has
\* a row for that parent updates that row.
OneRowPerParentLocale ==
    \A p \in Parents, l \in Locales : Cardinality(FilterBy(rows, p, l)) <= 1

\* C3 witness: two fields of one parent were written under one locale and
\* share a row, next to a row of another (parent, locale) pair.
TwoFieldsShareARow ==
    /\ Len(rows) >= 2
    /\ \E i \in DOMAIN rows : \A f \in Fields : rows[i].fields[f] # None

\* C4 as claimed: a read under locale L returns the value most recently
\* written to that field under L (None if there was none), whatever the value.
ReadReturnsLastWritten ==
    lastRead.called => lastRead.value = lastRead.last_written

\* C7 as claimed: when both requests have written the same parent under the
\* same locale, starting from a table with no row for the pair, exactly one
\* row for the pair exists.
RaceLeavesOneRow ==
    (/\ \A r \in Procs : proc[r].pc = "done"
     /\ proc[1].parent = proc[2].parent
     /\ proc[1].lang = proc[2].lang)
    => Cardinality(FilterBy(rows, proc[1].parent, proc[1].lang)) = 1

\* ------------------------------------------------------------------------
\* Properties of the session and customer resources
\* ------------------------------------------------------------------------

\* C1: when _authenticate succeeds for user U while the session holds the id
\* of an existing customer C without a user, then afterwards every cart of C
\* belongs to U's customer, C is deleted, session['customer_id'] is U's
\* customer, and the carts are the same carts (none lost, none added, the
\* others where they were).
MergeOnLogin ==
    [][(/\ resp' = Json(202)
        /\ session.customer_id \in CustomerIds
        /\ customers[session.customer_id].user_id = 0)
       => \A d \in AuthPayloads :
             SessionPut(d)
             => LET C == session.customer_id
                    own == UserCustomer(customers', FindUser(d.email))
                IN /\ own # 0
                   /\ DOMAIN carts' = DOMAIN carts
                   /\ \A k \in DOMAIN carts :
                         carts'[k] = IF carts[k] = C THEN own ELSE carts[k]
                   /\ ~customers'[C].alive
                   /\ session'.customer_id = own]_vars

\* C1 witness: a logged-in session whose user's customer holds a cart, after
\* an anonymous customer was deleted by the merge.
MergedCartOwned ==
    /\ session.user_id # 0
    /\ \E c \in DOMAIN customers : ~customers[c].alive /\ customers[c].user_id = 0
    /\ \E k \in DOMAIN carts : carts[k] = UserCustomer(customers, session.user_id)

\* C2: in every state reached by registrations, log-ins, log-outs and
\* customer updates, each user is linked to at most one customer.
AtMostOneCustomerPerUser ==
    \A u \in UserIds : Cardinality({c \in CustomerIds : customers[c].user_id = u}) <= 1

\* C2 witness: a second account was registered, an anonymous customer was
\* merged away on log-in, and a customer of a user was updated.
RegisteredMergedUpdated ==
    /\ Len(users) = 2
    /\ \E c \in DOMAIN customers : ~customers[c].alive
    /\ \E c \in CustomerIds : customers[c].user_id # 0 /\ customers[c].first_name = "Ann"

\* C8 as claimed: on the authentication path of PUT sessions, unless a user
\* with the given email exists, needs no confirmation, is active and the
\* password verifies, the response is 400 with an error on email or password
\* and the session is unchanged; with all of that, the user is logged in and
\* session['customer_id'] is that user's customer.
AuthenticatesOrRefuses ==
    [][\A d \in AuthPayloads :
          SessionPut(d)
          => LET user == FindUser(d.email)
                 granted == /\ user # 0
                            /\ ~RequiresConfirmation(user)
                            /\ users[user].active
                            /\ VerifyPassword(DictGet(d, "password"), users[user].password)
             IN IF granted
                THEN /\ session'.user_id = user
                     /\ session'.customer_id = UserCustomer(customers', user)
                ELSE /\ resp'.status = 400
                     /\ resp'.errors \cap {"email", "password"} # {}
                     /\ session' = session]_vars

\* C9: PUT sessions with non-null confirm_password and token sets the token's
\* user's password and answers 202 (logging that user in, if flask-login
\* accepts the user) exactly when the token is neither invalid nor expired
\* and password equals confirm_password; otherwise it answers 400 with an
\* error on token or confirm_password and leaves users and session unchanged.
PasswordChangeNeedsToken ==
    [][\A d \in ChangePayloads :
          SessionPut(d)
          => LET status == ResetPasswordTokenStatus(d.token)
                 good == /\ ~status.invalid
                         /\ ~status.expired
                         /\ DictGet(d, "password") = d.confirm_password
             IN IF good
                THEN /\ resp'.status = 202
                     /\ users' = [users EXCEPT ![status.user].password = d.confirm_password]
                     /\ session'.user_id \in {session.user_id, status.user}
                     /\ users[status.user].active => session'.user_id = status.user
                ELSE /\ resp'.status = 400
                     /\ resp'.errors \in {{"token"}, {"confirm_password"}}
                     /\ users' = users
                     /\ session' = session]_vars

\* C9 witness: a password was set through a reset token and its user is
\* logged in.
PasswordWasReset ==
    /\ resp = Json(202)
    /\ session.user_id # 0
    /\ users[session.user_id].password \in Passwords

RefusedWithErrors ==
    /\ resp'.status = 400
    /\ resp'.body = "errors"
    /\ resp'.errors # {}
    /\ UNCHANGED <<users, customers, carts, addresses, bankAccounts>>

\* C6: in each of the seven write handlers a payload that the resource's
\* validation schema does not accept is answered 400 with the field-level
\* error mapping, and the request creates, updates or deletes no entity.
InvalidPayloadRefused ==
    [][/\ \A d \in RegisterPayloads :
             SessionPost(d) /\ SessionErrors(d) # {} => RefusedWithErrors
       /\ \A d \in AuthPayloads :
             SessionPut(d) /\ SessionErrors(d) # {} => RefusedWithErrors
       /\ \A d \in WriteProfilePayloads :
             ProfilePut(1, d) /\ (ProfileErrors(d) # {} \/ CmpPwds(d) = "crash")
             => RefusedWithErrors
       /\ \A d \in AddressPayloads :
             AddressPost(d) /\ AddressErrors(d) # {} => RefusedWithErrors
       /\ \A d \in BankAccountPayloads :
             BankAccountPost(d) /\ BankAccountErrors(d) # {} => RefusedWithErrors
       /\ \A d \in CustomerPayloads :
             CustomerPost(d) /\ CustomerErrors(d) # {} => RefusedWithErrors
       /\ \A id \in 1..MaxCustomers, d \in CustomerPayloads :
             CustomerPut(id, d) /\ CustomerErrors(d) # {} => RefusedWithErrors]_vars

\* C11: a caller who is not a superuser never obtains a bank account owned
\* by another user.  get_object gives an account to its owner or a superuser
\* and answers 401 to any other caller; get_objects for a caller who is not a
\* superuser gives exactly the caller's own accounts, whatever the user_id
\* query argument says.
OnlyOwnBankAccounts ==
    LET caller == fetched.caller
        superuser == IsSuperuser(users, caller)
    IN /\ \A b \in fetched.rows : superuser \/ bankAccounts[b].user_id = caller
       /\ (fetched.op = "get_object" /\ fetched.id \in DOMAIN bankAccounts)
          => IF caller # 0 /\ (superuser \/ bankAccounts[fetched.id].user_id = caller)
             THEN fetched.rows = {fetched.id} /\ resp = Json(200)
             ELSE fetched.rows = {} /\ resp = Abort(401)
       /\ (fetched.op = "get_objects" /\ caller # 0 /\ ~superuser)
          => fetched.rows = {b \in DOMAIN bankAccounts : bankAccounts[b].user_id = caller}

\* A caller who is not a superuser asked for another user's accounts by
\* user_id, while that user has accounts, and was given their own.
AskedForAnothersAccounts ==
    /\ fetched.op = "get_objects"
    /\ fetched.caller # 0
    /\ ~IsSuperuser(users, fetched.caller)
    /\ ArgUserId(fetched.arg) \notin {0, fetched.caller}
    /\ \E b \in DOMAIN bankAccounts : bankAccounts[b].user_id = ArgUserId(fetched.arg)
    /\ fetched.rows # {}

====
